---- MODULE Spec2Model ----
(***************************************************************************)
(* Status dashboard client (static/js/app.js): the polling scheduler       *)
(* (fetchStatus / startPolling / the refreshInterval watcher / mounted),   *)
(* the stable-order registry (ensureStableOrder / loadSavedOrder /         *)
(* saveOrder), the history window extractor (historySlice), the detail     *)
(* view (openModal / closeModal / renderDetailChart) and the tooltip       *)
(* (showTooltip / moveTooltip / hideTooltip / updateTooltipPos); and, from *)
(* the revision of the same file that still draws a sparkline per card,    *)
(* the chart reconciliation (updateSparklines and the watchers that        *)
(* schedule it).                                                           *)
(*                                                                         *)
(* The host is single-threaded: every action below is one callback run to  *)
(* its next suspension point (the await of the HTTP request, or the end of *)
(* the handler together with the watchers it triggers). A callback handed  *)
(* to $nextTick is a microtask: it runs after the rendering surface has    *)
(* applied the pending mutations and before the host delivers any other    *)
(* event, timer or response.                                               *)
(***************************************************************************)
EXTENDS Integers, Sequences, FiniteSets

VARIABLES
    mountedDone,      \* the mounted() hook has run
    apis,             \* data.apis: the entity collection (stamped, sorted)
    fetched,          \* the array last handed to ensureStableOrder, as received
    orderMap,         \* data.orderMap
    nextOrder,        \* data.nextOrder
    storage,          \* localStorage["apiOrder"]
    isLoading,        \* data.isLoading
    fetchError,       \* data.fetchError is set (non-null)
    refreshInterval,  \* data.refreshInterval (raw value bound to the selector)
    fetchIntervalId,  \* data.fetchIntervalId (0 stands for null)
    timers,           \* ids of the interval timers armed in the host
    inFlight,         \* number of axios.get("/api/status") requests outstanding
    last,             \* the callback that ran last
    sliceApi,         \* argument of the last historySlice call
    timeRange,        \* data.timeRange
    sliceOut,         \* result of the last historySlice call
    showModal,        \* data.showModal
    selectedApi,      \* data.selectedApi
    detailChart,      \* data.detailChart holds a chart handle
    detailCanvas,     \* the element with id "detailChart" is in the document
    tooltip,          \* data.tooltip
    view,             \* window size and the tooltip element as the document has it
    ticks,            \* callbacks handed to $nextTick that have not run yet
    rendered,         \* the surface has applied every mutation that a deferred
                      \* callback waits for or that adds or removes elements
    search,           \* data.search
    statusFilter,     \* data.statusFilter
    categoryFilter,   \* data.categoryFilter
    charts,           \* names that own a handle in data.charts
    canvases          \* names whose sparkline canvas is in the document

vars == <<mountedDone, apis, fetched, orderMap, nextOrder, storage, isLoading, fetchError,
          refreshInterval, fetchIntervalId, timers, inFlight, last,
          sliceApi, timeRange, sliceOut,
          showModal, selectedApi, detailChart, detailCanvas, tooltip, view,
          ticks, rendered,
          search, statusFilter, categoryFilter, charts, canvases>>

syncVars == <<mountedDone, apis, fetched, orderMap, nextOrder, storage, isLoading, fetchError,
              refreshInterval, fetchIntervalId, timers, inFlight, last>>

sliceVars == <<sliceApi, timeRange, sliceOut>>

detailVars == <<showModal, selectedApi, detailChart, detailCanvas, tooltip, view>>

tickVars == <<ticks, rendered>>

chartVars == <<search, statusFilter, categoryFilter, charts, canvases>>

\* what the scheduler and the registry never touch
restVars == <<sliceVars, detailVars, tickVars, chartVars>>

----------------------------------------------------------------------------
(* Bounds of the model *)

\* largest rank found in a persisted order object
MaxSavedRank == 1

\* names that appear in fetched snapshots
Names == {"A", "B"}
\* names a persisted order object can mention: one that is still reported
\* and one of a retired entity that is never reported again
SavedNames == {"A", "Z"}
Statuses == {"Online", "Offline"}

----------------------------------------------------------------------------
(* JavaScript values that can sit in the order map: a number, or something *)
(* that is not a number (a JSON string such as "x").                       *)

Num(n) == [num |-> TRUE, n |-> n]
NonNumeric == [num |-> FALSE, n |-> 0]

EmptyProps == [x \in {} |-> Num(0)]

\* Object.create(null)
EmptyMap == [isArray |-> FALSE, elems |-> <<>>, props |-> EmptyProps]

\* orderMap[name] == null  (names are never array indices)
Has(om, name) == name \in DOMAIN om.props

\* orderMap[name]
Lookup(om, name) == om.props[name]

\* orderMap[name] = v
SetProp(om, name, v) ==
    [om EXCEPT !.props = [x \in (DOMAIN om.props) \cup {name} |->
                             IF x = name THEN v ELSE om.props[x]]]

\* Object.values(orderMap): array elements first, then the named properties
ValuesOf(om) ==
    {om.elems[i] : i \in DOMAIN om.elems} \cup {om.props[x] : x \in DOMAIN om.props}

----------------------------------------------------------------------------
(* Durable storage: the text under the key "apiOrder", modelled by the     *)
(* JSON value it parses to.  "missing" is getItem returning null,          *)
(* "garbage" is text JSON.parse rejects.                                   *)

StoreVal(kind, elems, props) == [kind |-> kind, elems |-> elems, props |-> props]

SavedValues == {Num(r) : r \in 0..MaxSavedRank} \cup {NonNumeric}

SavedObjects ==
    UNION {{StoreVal("object", <<>>, f) : f \in [S -> SavedValues]} :
           S \in SUBSET SavedNames}

SavedArrays ==
    {StoreVal("array", <<>>, EmptyProps)} \cup
    {StoreVal("array", <<Num(r)>>, EmptyProps) : r \in 0..MaxSavedRank}

StorageValues ==
    {StoreVal(k, <<>>, EmptyProps) : k \in {"missing", "garbage", "scalar", "null"}}
    \cup SavedArrays \cup SavedObjects

\* Math.max(-1, ...values) over numbers
MaxOf(S) == CHOOSE m \in S : \A x \in S : x <= m

\* loadSavedOrder(): the registry it leaves, given the registry it found
LoadSavedOrder(st, om, next) ==
    LET \* localStorage.getItem("apiOrder") || "{}"
        saved == IF st.kind = "missing" THEN StoreVal("object", <<>>, EmptyProps) ELSE st
    IN  IF saved.kind = "garbage"
        THEN \* JSON.parse throws, the catch swallows it
             [orderMap |-> om, nextOrder |-> next]
        ELSE IF saved.kind \in {"object", "array"}
             THEN \* saved && typeof saved === "object"
                  LET m == [isArray |-> saved.kind = "array",
                            elems |-> saved.elems, props |-> saved.props]
                      vals == ValuesOf(m)
                      \* Math.max is NaN as soon as one value is not a number
                      finite == \A v \in vals : v.num
                      max == MaxOf({-1} \cup {v.n : v \in vals})
                  IN  [orderMap |-> m, nextOrder |-> IF finite THEN max + 1 ELSE 0]
             ELSE [orderMap |-> om, nextOrder |-> next]

\* JSON.stringify(orderMap): an array is written without its named properties
Stringify(om) ==
    IF om.isArray THEN StoreVal("array", om.elems, EmptyProps)
    ELSE StoreVal("object", <<>>, om.props)

\* saveOrder(): the new storage content; a throwing setItem is swallowed
SaveOrder(st, om, accepted) == IF accepted THEN Stringify(om) ELSE st

----------------------------------------------------------------------------
(* ensureStableOrder *)

\* a forEach that hands out a new rank on every call
RECURSIVE StampAllReassign(_, _, _)
StampAllReassign(list, om, next) ==
    IF list = <<>> THEN [list |-> <<>>, orderMap |-> om, nextOrder |-> next]
    ELSE LET api == Head(list)
             om1 == SetProp(om, api.name, Num(next))
             rest == StampAllReassign(Tail(list), om1, next + 1)
         IN  [list |-> <<[name |-> api.name, status |-> api.status,
                          rank |-> Lookup(om1, api.name)]>> \o rest.list,
              orderMap |-> rest.orderMap,
              nextOrder |-> rest.nextOrder]

\* the forEach of ensureStableOrder: assign unseen names, stamp every entity
RECURSIVE StampAll(_, _, _)
StampAll(list, om, next) ==
    IF list = <<>> THEN [list |-> <<>>, orderMap |-> om, nextOrder |-> next]
    ELSE LET api == Head(list)
             isNew == ~Has(om, api.name)
             om1 == IF isNew THEN SetProp(om, api.name, Num(next)) ELSE om
             next1 == IF isNew THEN next + 1 ELSE next
             rest == StampAll(Tail(list), om1, next1)
         IN  [list |-> <<[name |-> api.name, status |-> api.status,
                          rank |-> Lookup(om1, api.name)]>> \o rest.list,
              orderMap |-> rest.orderMap,
              nextOrder |-> rest.nextOrder]

\* (a, b) => a.__order - b.__order ; a NaN result counts as +0 in the sort
Compare(a, b) == IF a.rank.num /\ b.rank.num THEN a.rank.n - b.rank.n ELSE 0

\* Insertion sort scanning from the back: e moves left past every element
\* that compares greater than it.
RECURSIVE InsertBack(_, _)
InsertBack(sorted, e) ==
    IF sorted = <<>> THEN <<e>>
    ELSE LET n == Len(sorted)
         IN  IF Compare(sorted[n], e) > 0
             THEN InsertBack(SubSeq(sorted, 1, n - 1), e) \o <<sorted[n]>>
             ELSE sorted \o <<e>>

RECURSIVE InsertionSort(_)
InsertionSort(list) ==
    IF list = <<>> THEN <<>>
    ELSE InsertBack(InsertionSort(SubSeq(list, 1, Len(list) - 1)), list[Len(list)])

\* TimSort on a short array (one run): the length of the initial run ...
RECURSIVE RunEnd(_, _, _)
RunEnd(list, idx, descending) ==
    IF idx > Len(list) THEN idx - 1
    ELSE LET order == Compare(list[idx], list[idx - 1])
         IN  IF (descending /\ order >= 0) \/ (~descending /\ order < 0)
             THEN idx - 1
             ELSE RunEnd(list, idx + 1, descending)

Reversed(list) == [i \in DOMAIN list |-> list[Len(list) + 1 - i]]

\* ... the slot a binary search finds for the pivot in arr[left .. right-1] ...
RECURSIVE BinarySlot(_, _, _, _)
BinarySlot(arr, pivot, left, right) ==
    IF left >= right THEN left
    ELSE LET mid == left + ((right - left) \div 2)
         IN  IF Compare(pivot, arr[mid]) < 0
             THEN BinarySlot(arr, pivot, left, mid)
             ELSE BinarySlot(arr, pivot, mid + 1, right)

\* ... and the binary insertion of the elements behind the run
RECURSIVE BinaryInsertionSort(_, _)
BinaryInsertionSort(arr, start) ==
    IF start > Len(arr) THEN arr
    ELSE LET pivot == arr[start]
             slot == BinarySlot(arr, pivot, 1, start)
             moved == SubSeq(arr, 1, slot - 1) \o <<pivot>> \o SubSeq(arr, slot, start - 1)
                      \o SubSeq(arr, start + 1, Len(arr))
         IN  BinaryInsertionSort(moved, start + 1)

TimSortShort(list) ==
    IF Len(list) < 2 THEN list
    ELSE LET descending == Compare(list[2], list[1]) < 0
             run == RunEnd(list, 3, descending)
             arr == IF descending
                    THEN Reversed(SubSeq(list, 1, run)) \o SubSeq(list, run + 1, Len(list))
                    ELSE list
         IN  BinaryInsertionSort(arr, run + 1)

\* list.sort(comparefn): the order is the engine's; both algorithms are
\* stable and agree whenever the comparator is consistent
SortOutcomes(list) == {TimSortShort(list), InsertionSort(list)}

\* ensureStableOrder(list): every [list, orderMap, nextOrder] it can produce
EnsureStableOrder(list, om, next) ==
    LET r == StampAll(list, om, next)
    IN  {[list |-> s, orderMap |-> r.orderMap, nextOrder |-> r.nextOrder] :
            s \in SortOutcomes(r.list)}

\* the JSON array of entity records a response can carry
NameSeqs(names, maxLen) ==
    UNION {{s \in [1..k -> names] : \A i, j \in 1..k : s[i] = s[j] => i = j} :
           k \in 0..maxLen}

EntityLists(names, maxLen) ==
    UNION {{[i \in DOMAIN ns |-> [name |-> ns[i], status |-> st[i]]] :
               st \in [DOMAIN ns -> Statuses]} : ns \in NameSeqs(names, maxLen)}

\* every duplicate-free array of entity records over Names
Snapshots == EntityLists(Names, Cardinality(Names))

----------------------------------------------------------------------------
(* History window extractor *)

\* longest sample history of an entity
MaxHistory == 62

Window24h == 20
Window7d == 40
Window30d == 60

TimeRanges == {"24h", "7d", "30d", "1y"}

\* a field of an entity record: an array, or anything that is no array
ArrayOf(items) == [isArray |-> TRUE, items |-> items]
NotAnArray == [isArray |-> FALSE, items |-> <<>>]

\* sample k of an entity, in each of its four aligned series
Samples(n) == [k \in 1..n |-> k]

\* the shapes one of the companion series can have next to a history of n
\* samples: aligned with it, absent, or one sample short
Companions(n) ==
    {ArrayOf(Samples(n)), NotAnArray, ArrayOf(Samples(IF n > 0 THEN n - 1 ELSE 0))}

NoApi == [present |-> FALSE, history |-> NotAnArray, history_ts |-> NotAnArray,
          history_ok |-> NotAnArray, history_status |-> NotAnArray]

SliceInputs ==
    {NoApi} \cup
    UNION {{[present |-> TRUE, history |-> h, history_ts |-> c, history_ok |-> o,
             history_status |-> d] :
               h \in {ArrayOf(Samples(n)), NotAnArray}, c \in Companions(n),
               o \in Companions(n), d \in Companions(n)} : n \in 0..MaxHistory}

\* Array.isArray(x) ? x.slice() : []
CopyOrEmpty(field) == IF field.isArray THEN field.items ELSE <<>>

\* Array.prototype.slice(start) for 0 <= start
SliceFrom(arr, start) ==
    IF start >= Len(arr) THEN <<>> ELSE SubSeq(arr, start + 1, Len(arr))

\* the switch on this.timeRange
WindowSize(range) ==
    CASE range = "24h" -> Window24h
      [] range = "7d" -> Window7d
      [] OTHER -> Window30d

EmptySlice == [values |-> <<>>, labels |-> <<>>, ok |-> <<>>, status |-> <<>>]

\* a window start that is one sample late
HistorySliceLate(api, range) ==
    IF ~api.present THEN EmptySlice
    ELSE LET values == CopyOrEmpty(api.history)
             start == IF Len(values) - WindowSize(range) + 1 > 0
                      THEN Len(values) - WindowSize(range) + 1 ELSE 0
         IN  [values |-> SliceFrom(values, start),
              labels |-> SliceFrom(CopyOrEmpty(api.history_ts), start),
              ok |-> SliceFrom(CopyOrEmpty(api.history_ok), start),
              status |-> SliceFrom(CopyOrEmpty(api.history_status), start)]

\* historySlice(api) under this.timeRange = range
HistorySlice(api, range) ==
    IF ~api.present THEN EmptySlice
    ELSE LET values == CopyOrEmpty(api.history)
             labels == CopyOrEmpty(api.history_ts)
             okFlags == CopyOrEmpty(api.history_ok)
             statusCodes == CopyOrEmpty(api.history_status)
             len == Len(values)
             n == WindowSize(range)
             \* Math.max(0, len - n)
             start == IF len - n > 0 THEN len - n ELSE 0
         IN  [values |-> SliceFrom(values, start),
              labels |-> SliceFrom(labels, start),
              ok |-> SliceFrom(okFlags, start),
              status |-> SliceFrom(statusCodes, start)]

----------------------------------------------------------------------------
(* Deferred callbacks *)

\* the pointer event a handler receives; a handler can be called without one
NoEvent == [present |-> FALSE, clientX |-> 0, clientY |-> 0]
PointerAt(x, y) == [present |-> TRUE, clientX |-> x, clientY |-> y]

\* the callbacks the program hands to $nextTick
FetchTick == [kind |-> "fetch", evt |-> NoEvent]
OpenTick == [kind |-> "open", evt |-> NoEvent]
RenderTick == [kind |-> "render", evt |-> NoEvent]
TooltipTick(evt) == [kind |-> "tooltip", evt |-> evt]
SparkTick == [kind |-> "sparklines", evt |-> NoEvent]

\* a $nextTick that drops its callback
NextTickLost(queue, callback) == queue

\* this.$nextTick(callback)
NextTick(queue, callback) == Append(queue, callback)

\* the host delivers an event, a timer or a response only when no deferred
\* callback is pending and the surface is up to date
Quiescent == ticks = <<>> /\ rendered

----------------------------------------------------------------------------
(* Tooltip *)

TooltipOffset == 16

\* the bar the pointer is over; null when there is none
NoPoint == "null"
Points == {"bar1", "bar2"}

\* largest window width and height, in pixels
MaxView == 18

HiddenTooltip == [show |-> FALSE, x |-> 0, y |-> 0, point |-> NoPoint]

\* window.innerWidth / innerHeight and this.$refs.tooltipElement with its
\* offsetWidth / offsetHeight
View(w, h, el, tw, th) ==
    [innerWidth |-> w, innerHeight |-> h, tooltipEl |-> el,
     offsetWidth |-> tw, offsetHeight |-> th]

\* a window of the largest size whose tooltip element, once in the
\* document, takes a ninth of it each way
DetailView == View(MaxView, MaxView, FALSE, MaxView \div 9, MaxView \div 9)

\* the pointer positions of the events delivered while the page is used
Pointers == {PointerAt(0, 0), PointerAt(MaxView - 1, MaxView - 1)}

\* a flip that is already taken when the tooltip just touches the edge
OverflowsEager(pos, size, limit) == pos + TooltipOffset + size >= limit

\* evt.clientX + offset + tooltipWidth > windowWidth (and the same for Y)
Overflows(pos, size, limit) == pos + TooltipOffset + size > limit

\* updateTooltipPos(evt)
UpdateTooltipPos(tip, evt, v) ==
    LET newX == IF v.tooltipEl /\ Overflows(evt.clientX, v.offsetWidth, v.innerWidth)
                THEN evt.clientX - v.offsetWidth - TooltipOffset
                ELSE evt.clientX + TooltipOffset
        newY == IF v.tooltipEl /\ Overflows(evt.clientY, v.offsetHeight, v.innerHeight)
                THEN evt.clientY - v.offsetHeight - TooltipOffset
                ELSE evt.clientY + TooltipOffset
    IN  [tip EXCEPT !.x = newX, !.y = newY]

\* a hideTooltip that leaves the point in place
HideTooltipKeepsPoint(tip) == [tip EXCEPT !.show = FALSE]

\* hideTooltip()
HideTooltip(tip) == [tip EXCEPT !.show = FALSE, !.point = NoPoint]

----------------------------------------------------------------------------
(* Detail view *)

\* selectedApi: {} before any card was opened
NoSelection == [name |-> "", status |-> "", rank |-> NonNumeric]

\* index of the first entity of the list with that name, 0 when there is none
FindByName(list, name) ==
    IF \E i \in DOMAIN list : list[i].name = name
    THEN CHOOSE i \in DOMAIN list :
            list[i].name = name /\ \A j \in 1..(i - 1) : list[j].name # name
    ELSE 0

\* a refresh that never rebinds the detail view
RefreshSelectedNever(list, shown, sel) == sel

\* if (showModal && selectedApi && selectedApi.name) { updated = apis.find(..);
\*   if (updated) selectedApi = updated }
RefreshSelected(list, shown, sel) ==
    IF shown /\ sel.name # "" /\ FindByName(list, sel.name) # 0
    THEN list[FindByName(list, sel.name)]
    ELSE sel

\* a close that leaves the chart handle behind
DestroyDetailChartKeeps(handle) == handle

\* if (this.detailChart) { destroy(); this.detailChart = null }
DestroyDetailChart(handle) == FALSE

\* the histories the bound record can carry when its chart is drawn
DetailHistories == {NotAnArray, ArrayOf(<<>>), ArrayOf(Samples(1))}

\* the bound record as historySlice sees it
DetailRecord(h) ==
    [present |-> TRUE, history |-> h, history_ts |-> h, history_ok |-> h,
     history_status |-> h]

\* renderDetailChart(): whether a chart handle exists afterwards
RenderDetailChart(handle, canvas, h, range) ==
    IF ~canvas THEN handle
    ELSE IF HistorySlice(DetailRecord(h), range).values = <<>>
         THEN DestroyDetailChart(handle)
         ELSE TRUE

----------------------------------------------------------------------------
(* Status synchronizer *)

NoTimer == 0

\* values the refresh selector can put into refreshInterval: a count of
\* milliseconds, or text that holds no number
Millis(n) == [text |-> FALSE, n |-> n]
NoNumberText == [text |-> TRUE, n |-> 0]
DefaultInterval == Millis(30000)
IntervalChoices == {Millis(0), Millis(5000), DefaultInterval, NoNumberText}

\* parseInt(this.refreshInterval, 10) > 0 ; parseInt of such text is NaN
IntervalPositive(raw) == ~raw.text /\ raw.n > 0

\* setInterval returns an id no armed timer has
NewTimerId(tm) == CHOOSE id \in 1..(Cardinality(tm) + 1) : id \notin tm

\* a clearInterval that is forgotten
ClearPollTimerKeeps(tm, fid) == tm

\* if (this.fetchIntervalId) clearInterval(this.fetchIntervalId)
ClearPollTimer(tm, fid) == IF fid # NoTimer THEN tm \ {fid} ELSE tm

\* startPolling(): the armed timers and the handle it leaves
StartPolling(tm, fid, raw) ==
    LET cleared == ClearPollTimer(tm, fid)
    IN  IF IntervalPositive(raw)
        THEN LET id == NewTimerId(cleared)
             IN  [timers |-> cleared \cup {id}, fetchIntervalId |-> id]
        ELSE [timers |-> cleared, fetchIntervalId |-> fid]

\* fetchStatus without its mutual-exclusion test
AlreadyFetchingNever(loading) == FALSE

\* if (this.isLoading) return;
AlreadyFetching(loading) == loading

\* fetchStatus() up to its await: clear the timer, then either return or
\* mark the fetch and issue the request
FetchStatusEntry(tm, fid, loading, err, reqs) ==
    LET cleared == ClearPollTimer(tm, fid)
    IN  IF AlreadyFetching(loading)
        THEN [timers |-> cleared, isLoading |-> loading, fetchError |-> err,
              inFlight |-> reqs]
        ELSE [timers |-> cleared, isLoading |-> TRUE, fetchError |-> FALSE,
              inFlight |-> reqs + 1]

\* mounted(): loadSavedOrder(); fetchStatus(); startPolling();
Mounted ==
    /\ Quiescent
    /\ ~mountedDone
    /\ mountedDone' = TRUE
    /\ LET reg == LoadSavedOrder(storage, orderMap, nextOrder)
           f == FetchStatusEntry(timers, fetchIntervalId, isLoading, fetchError, inFlight)
           p == StartPolling(f.timers, fetchIntervalId, refreshInterval)
       IN  /\ orderMap' = reg.orderMap
           /\ nextOrder' = reg.nextOrder
           /\ isLoading' = f.isLoading
           /\ fetchError' = f.fetchError
           /\ inFlight' = f.inFlight
           /\ timers' = p.timers
           /\ fetchIntervalId' = p.fetchIntervalId
    /\ last' = "mounted"
    /\ UNCHANGED <<apis, fetched, storage, refreshInterval>>
    /\ UNCHANGED restVars

\* a call of fetchStatus() from a timer or from the user
FetchStatusCall(by) ==
    /\ LET f == FetchStatusEntry(timers, fetchIntervalId, isLoading, fetchError, inFlight)
       IN  /\ timers' = f.timers
           /\ isLoading' = f.isLoading
           /\ fetchError' = f.fetchError
           /\ inFlight' = f.inFlight
    /\ last' = by
    /\ UNCHANGED <<mountedDone, apis, fetched, orderMap, nextOrder, storage, refreshInterval,
                   fetchIntervalId>>
    /\ UNCHANGED restVars

\* an armed interval timer fires: setInterval(this.fetchStatus, interval)
TimerFire ==
    /\ Quiescent
    /\ mountedDone
    /\ \E t \in timers : FetchStatusCall(IF isLoading THEN "timerNoop" ELSE "timerFetch")

\* the user asks for a refresh
ManualFetch ==
    /\ Quiescent
    /\ mountedDone
    /\ FetchStatusCall(IF isLoading THEN "manualNoop" ELSE "manualFetch")

\* the user picks another refresh interval; watch.refreshInterval runs startPolling
SetRefreshInterval ==
    /\ Quiescent
    /\ mountedDone
    /\ \E raw \in IntervalChoices \ {refreshInterval} :
          /\ refreshInterval' = raw
          /\ LET p == StartPolling(timers, fetchIntervalId, raw)
             IN  timers' = p.timers /\ fetchIntervalId' = p.fetchIntervalId
    /\ last' = "interval"
    /\ UNCHANGED <<mountedDone, apis, fetched, orderMap, nextOrder, storage, isLoading,
                   fetchError, inFlight>>
    /\ UNCHANGED restVars

\* a finally block that forgets to call startPolling
FetchFinallyNoRestart ==
    /\ isLoading' = FALSE
    /\ UNCHANGED <<timers, fetchIntervalId>>

\* finally { this.isLoading = false; this.startPolling(); }
FetchFinally ==
    /\ isLoading' = FALSE
    /\ LET p == StartPolling(timers, fetchIntervalId, refreshInterval)
       IN  timers' = p.timers /\ fetchIntervalId' = p.fetchIntervalId

\* the request resolves with an array of entity records, one of `payloads`,
\* and storage takes the write or not as `writes` allows; the selectedApi
\* watcher runs when the detail view was rebound
FetchSuccessOf(payloads, writes) ==
    /\ Quiescent
    /\ inFlight > 0
    /\ \E data \in payloads, accepted \in writes :
         \E r \in EnsureStableOrder(data, orderMap, nextOrder) :
            /\ fetched' = data
            /\ apis' = r.list
            /\ orderMap' = r.orderMap
            /\ nextOrder' = r.nextOrder
            /\ storage' = SaveOrder(storage, r.orderMap, accepted)
            /\ selectedApi' = RefreshSelected(r.list, showModal, selectedApi)
            /\ ticks' = IF showModal /\ selectedApi.name # ""
                           /\ FindByName(r.list, selectedApi.name) # 0
                        THEN <<FetchTick, RenderTick>>
                        ELSE <<FetchTick>>
            /\ last' = IF accepted THEN "success" ELSE "successUnsaved"
    /\ rendered' = FALSE
    /\ inFlight' = inFlight - 1
    /\ FetchFinally
    /\ UNCHANGED <<mountedDone, fetchError, refreshInterval>>
    /\ UNCHANGED <<showModal, detailChart, detailCanvas, tooltip, view>>
    /\ UNCHANGED <<sliceVars, chartVars>>

FetchSuccess == FetchSuccessOf(Snapshots, BOOLEAN)

\* a catch block that blanks the collection
FetchFailureBlanks ==
    /\ Quiescent
    /\ inFlight > 0
    /\ apis' = <<>>
    /\ last' = "failRequest"
    /\ fetchError' = TRUE
    /\ inFlight' = inFlight - 1
    /\ FetchFinally
    /\ UNCHANGED <<mountedDone, fetched, orderMap, nextOrder, storage, refreshInterval>>
    /\ UNCHANGED restVars

\* the request rejects, or its payload makes ensureStableOrder throw: either
\* it is no array (no forEach), or an element after `seen`, one of
\* `prefixes`, is null
FetchFailureOf(prefixes) ==
    /\ Quiescent
    /\ inFlight > 0
    /\ \/ /\ UNCHANGED <<orderMap, nextOrder>>
          /\ last' = "failRequest"
       \/ \E seen \in prefixes :
             LET r == StampAll(seen, orderMap, nextOrder)
             IN  /\ orderMap' = r.orderMap
                 /\ nextOrder' = r.nextOrder
                 /\ last' = "failElement"
    /\ fetchError' = TRUE
    /\ inFlight' = inFlight - 1
    /\ FetchFinally
    /\ UNCHANGED <<mountedDone, apis, fetched, storage, refreshInterval>>
    /\ UNCHANGED restVars

FetchFailure == FetchFailureOf(Snapshots)

\* the rendering surface applies the pending mutations: the canvas of the
\* detail view and the tooltip element are in the document only while the
\* view or the tooltip is shown, and possibly not yet then
Flush ==
    /\ ~rendered
    /\ rendered' = TRUE
    /\ detailCanvas' \in (IF showModal THEN BOOLEAN ELSE {FALSE})
    /\ \E el \in (IF tooltip.show THEN BOOLEAN ELSE {FALSE}) :
          view' = [view EXCEPT !.tooltipEl = el]
    /\ last' = "flush"
    /\ UNCHANGED <<mountedDone, apis, fetched, orderMap, nextOrder, storage, isLoading,
                   fetchError, refreshInterval, fetchIntervalId, timers, inFlight>>
    /\ UNCHANGED <<showModal, selectedApi, detailChart, tooltip, ticks>>
    /\ UNCHANGED <<sliceVars, chartVars>>

\* whether the deferred callback calls renderDetailChart
TickRenders(t, shown) ==
    t.kind = "open" \/ t.kind = "render" \/ (t.kind = "fetch" /\ shown)

\* the oldest deferred callback runs: the ones of openModal and of the
\* timeRange / selectedApi watchers render the detail chart, the one of
\* fetchStatus renders it if the view is open, the one of showTooltip places
\* the tooltip
RunTick ==
    /\ rendered
    /\ ticks # <<>>
    /\ Head(ticks).kind # "sparklines"
    /\ \E h \in DetailHistories :
          detailChart' = IF TickRenders(Head(ticks), showModal)
                         THEN RenderDetailChart(detailChart, detailCanvas, h, timeRange)
                         ELSE detailChart
    /\ tooltip' = IF Head(ticks).kind = "tooltip"
                  THEN UpdateTooltipPos(tooltip, Head(ticks).evt, view)
                  ELSE tooltip
    /\ ticks' = Tail(ticks)
    /\ last' = IF TickRenders(Head(ticks), showModal) THEN "renderDetailChart"
               ELSE IF Head(ticks).kind = "tooltip" THEN "placeTooltip"
               ELSE "fetchTick"
    /\ UNCHANGED <<mountedDone, apis, fetched, orderMap, nextOrder, storage, isLoading,
                   fetchError, refreshInterval, fetchIntervalId, timers, inFlight>>
    /\ UNCHANGED <<showModal, selectedApi, detailCanvas, view, rendered>>
    /\ UNCHANGED <<sliceVars, chartVars>>

SyncInit ==
    /\ mountedDone = FALSE
    /\ apis = <<>>
    /\ fetched = <<>>
    /\ orderMap = EmptyMap
    /\ nextOrder = 0
    /\ storage \in StorageValues
    /\ isLoading = FALSE
    /\ fetchError = FALSE
    /\ refreshInterval = DefaultInterval
    /\ fetchIntervalId = NoTimer
    /\ timers = {}
    /\ inFlight = 0
    /\ last = "created"

\* no historySlice call has been made; timeRange has its initial value
SliceIdle ==
    /\ sliceApi = NoApi
    /\ timeRange = "24h"
    /\ sliceOut = EmptySlice

\* the detail view is closed, the tooltip hidden, nothing is deferred
DetailIdle ==
    /\ showModal = FALSE
    /\ selectedApi = NoSelection
    /\ detailChart = FALSE
    /\ detailCanvas = FALSE
    /\ tooltip = HiddenTooltip
    /\ view = DetailView
    /\ ticks = <<>>
    /\ rendered = TRUE

\* no filter is set and no sparkline exists
ChartIdle ==
    /\ search = ""
    /\ statusFilter = "All"
    /\ categoryFilter = "All"
    /\ charts = {}
    /\ canvases = {}

Init == SyncInit /\ SliceIdle /\ DetailIdle /\ ChartIdle

Next ==
    \/ Mounted
    \/ TimerFire
    \/ ManualFetch
    \/ SetRefreshInterval
    \/ FetchSuccess
    \/ FetchFailure
    \/ Flush
    \/ RunTick

Spec == Init /\ [][Next]_vars

----------------------------------------------------------------------------
(* ensureStableOrder on its own: the registry as loadSavedOrder leaves it, *)
(* then any sequence of calls on duplicate-free lists over OrderNames.      *)

OrderNames == {"A", "B", "C"}
OrderInputs == EntityLists(OrderNames, Cardinality(OrderNames))

SyncIdle ==
    /\ mountedDone = FALSE
    /\ isLoading = FALSE
    /\ fetchError = FALSE
    /\ refreshInterval = DefaultInterval
    /\ fetchIntervalId = NoTimer
    /\ timers = {}
    /\ inFlight = 0

OrderInit ==
    /\ SyncIdle
    /\ SliceIdle
    /\ DetailIdle
    /\ ChartIdle
    /\ storage \in StorageValues
    /\ LET reg == LoadSavedOrder(storage, EmptyMap, 0)
       IN  orderMap = reg.orderMap /\ nextOrder = reg.nextOrder
    /\ apis = <<>>
    /\ fetched = <<>>
    /\ last = "loaded"

EnsureCall ==
    /\ \E data \in OrderInputs :
         \E r \in EnsureStableOrder(data, orderMap, nextOrder) :
            /\ fetched' = data
            /\ apis' = r.list
            /\ orderMap' = r.orderMap
            /\ nextOrder' = r.nextOrder
    /\ last' = "ensure"
    /\ UNCHANGED <<mountedDone, storage, isLoading, fetchError, refreshInterval,
                   fetchIntervalId, timers, inFlight>>
    /\ UNCHANGED restVars

OrderNext == EnsureCall

SpecOrder == OrderInit /\ [][OrderNext]_vars

----------------------------------------------------------------------------
(* History window extractor on its own: one call on any entity and range *)

SliceInit ==
    /\ SyncIdle
    /\ DetailIdle
    /\ ChartIdle
    /\ apis = <<>>
    /\ fetched = <<>>
    /\ orderMap = EmptyMap
    /\ nextOrder = 0
    /\ storage = StoreVal("missing", <<>>, EmptyProps)
    /\ last = "created"
    /\ sliceApi \in SliceInputs
    /\ timeRange \in TimeRanges
    /\ sliceOut = EmptySlice

\* a caller (historyBars, renderDetailChart) asks for the entity's window
HistorySliceCall ==
    /\ last = "created"
    /\ sliceOut' = HistorySlice(sliceApi, timeRange)
    /\ last' = "slice"
    /\ UNCHANGED <<sliceApi, timeRange>>
    /\ UNCHANGED <<mountedDone, apis, fetched, orderMap, nextOrder, storage, isLoading,
                   fetchError, refreshInterval, fetchIntervalId, timers, inFlight>>
    /\ UNCHANGED <<detailVars, tickVars, chartVars>>

SliceNext == HistorySliceCall

SpecSlice == SliceInit /\ [][SliceNext]_vars

\* The scheduler on a fresh browser profile (nothing persisted), with the
\* host's guarantees: an armed timer eventually fires, every issued request
\* eventually completes, the surface applies pending mutations and a
\* deferred callback runs.
LiveInit == Init /\ storage.kind = "missing"

LiveSpec ==
    /\ LiveInit
    /\ [][Next]_vars
    /\ WF_vars(TimerFire)
    /\ WF_vars(FetchSuccess \/ FetchFailure)
    /\ WF_vars(Flush \/ RunTick)

----------------------------------------------------------------------------
(* Detail view and tooltip: the dashboard on a fresh browser profile, polled *)
(* by its timer, while the user opens and closes cards, picks time ranges    *)
(* and moves the pointer over history bars.                                  *)

\* openModal(api) on a card of the collection; the selectedApi watcher runs
\* when the bound object changed, which the record alone cannot tell when
\* the same card is opened again
OpenModal ==
    /\ Quiescent
    /\ \E i \in DOMAIN apis, again \in BOOLEAN :
          /\ selectedApi' = apis[i]
          /\ ticks' = IF apis[i] # selectedApi \/ again
                      THEN <<OpenTick, RenderTick>>
                      ELSE <<OpenTick>>
    /\ showModal' = TRUE
    /\ rendered' = FALSE
    /\ last' = "openModal"
    /\ UNCHANGED <<mountedDone, apis, fetched, orderMap, nextOrder, storage, isLoading,
                   fetchError, refreshInterval, fetchIntervalId, timers, inFlight>>
    /\ UNCHANGED <<detailChart, detailCanvas, tooltip, view>>
    /\ UNCHANGED <<sliceVars, chartVars>>

\* closeModal()
CloseModal(by) ==
    /\ showModal' = FALSE
    /\ detailChart' = DestroyDetailChart(detailChart)
    /\ tooltip' = HideTooltip(tooltip)
    /\ rendered' = FALSE
    /\ last' = by
    /\ UNCHANGED <<mountedDone, apis, fetched, orderMap, nextOrder, storage, isLoading,
                   fetchError, refreshInterval, fetchIntervalId, timers, inFlight>>
    /\ UNCHANGED <<selectedApi, detailCanvas, view, ticks>>
    /\ UNCHANGED <<sliceVars, chartVars>>

\* the close control of the open detail view
CloseClick ==
    /\ Quiescent
    /\ showModal
    /\ CloseModal("closeModal")

\* keydown listener: if (this.showModal && e.key === "Escape") this.closeModal()
EscapeKey ==
    /\ Quiescent
    /\ showModal
    /\ CloseModal("escape")

\* the ranges the selector of the detail view is switched between
DetailRanges == {"24h", "7d"}

\* the user picks another time range; watch.timeRange defers a render when
\* the detail view is open
SetTimeRange ==
    /\ Quiescent
    /\ \E r \in DetailRanges \ {timeRange} : timeRange' = r
    /\ ticks' = IF showModal THEN <<RenderTick>> ELSE <<>>
    /\ rendered' = FALSE
    /\ last' = "timeRange"
    /\ UNCHANGED <<mountedDone, apis, fetched, orderMap, nextOrder, storage, isLoading,
                   fetchError, refreshInterval, fetchIntervalId, timers, inFlight>>
    /\ UNCHANGED <<showModal, selectedApi, detailChart, detailCanvas, tooltip, view>>
    /\ UNCHANGED <<sliceApi, sliceOut>>
    /\ UNCHANGED chartVars

\* showTooltip(evt, point): the pointer enters a history bar
ShowTooltip ==
    /\ Quiescent
    /\ \E evt \in Pointers \cup {NoEvent}, point \in Points :
          /\ evt.present
          /\ tooltip' = [tooltip EXCEPT !.show = TRUE, !.point = point]
          /\ ticks' = <<TooltipTick(evt)>>
    /\ rendered' = FALSE
    /\ last' = "showTooltip"
    /\ UNCHANGED <<mountedDone, apis, fetched, orderMap, nextOrder, storage, isLoading,
                   fetchError, refreshInterval, fetchIntervalId, timers, inFlight>>
    /\ UNCHANGED <<showModal, selectedApi, detailChart, detailCanvas, view>>
    /\ UNCHANGED <<sliceVars, chartVars>>

\* moveTooltip(evt): the pointer moves over a history bar
MoveTooltip ==
    /\ Quiescent
    /\ \E evt \in Pointers \cup {NoEvent} :
          tooltip' = IF evt.present /\ tooltip.show /\ view.tooltipEl
                     THEN UpdateTooltipPos(tooltip, evt, view)
                     ELSE tooltip
    /\ last' = "moveTooltip"
    /\ UNCHANGED <<mountedDone, apis, fetched, orderMap, nextOrder, storage, isLoading,
                   fetchError, refreshInterval, fetchIntervalId, timers, inFlight>>
    /\ UNCHANGED <<showModal, selectedApi, detailChart, detailCanvas, view>>
    /\ UNCHANGED <<sliceVars, tickVars, chartVars>>

\* hideTooltip(): the pointer leaves the history bar
HideTooltipCall ==
    /\ Quiescent
    /\ tooltip' = HideTooltip(tooltip)
    /\ rendered' = ~tooltip.show
    /\ last' = "hideTooltip"
    /\ UNCHANGED <<mountedDone, apis, fetched, orderMap, nextOrder, storage, isLoading,
                   fetchError, refreshInterval, fetchIntervalId, timers, inFlight>>
    /\ UNCHANGED <<showModal, selectedApi, detailChart, detailCanvas, view, ticks>>
    /\ UNCHANGED <<sliceVars, chartVars>>

\* the payloads of the polls in this part: entity A alone, A and B, and B
\* alone once A is retired
DetailSnapshots ==
    {<<[name |-> "A", status |-> "Online"]>>,
     <<[name |-> "A", status |-> "Offline"], [name |-> "B", status |-> "Online"]>>,
     <<[name |-> "B", status |-> "Online"]>>}

DetailInit == Init /\ storage.kind = "missing"

DetailNext ==
    \/ Mounted
    \/ TimerFire
    \/ FetchSuccessOf(DetailSnapshots, {TRUE})
    \/ FetchFailureOf({<<>>})
    \/ Flush
    \/ RunTick
    \/ OpenModal
    \/ CloseClick
    \/ EscapeKey
    \/ SetTimeRange
    \/ ShowTooltip
    \/ MoveTooltip
    \/ HideTooltipCall

SpecDetail == DetailInit /\ [][DetailNext]_vars

----------------------------------------------------------------------------
(* updateTooltipPos on its own: the deferred callback of showTooltip for any *)
(* pointer position inside the window and any tooltip that fits into it      *)

PlaceInit ==
    /\ SyncIdle
    /\ SliceIdle
    /\ ChartIdle
    /\ apis = <<>>
    /\ fetched = <<>>
    /\ orderMap = EmptyMap
    /\ nextOrder = 0
    /\ storage = StoreVal("missing", <<>>, EmptyProps)
    /\ last = "showTooltip"
    /\ showModal = FALSE
    /\ selectedApi = NoSelection
    /\ detailChart = FALSE
    /\ detailCanvas = FALSE
    /\ tooltip = [HiddenTooltip EXCEPT !.show = TRUE, !.point = "bar1"]
    /\ \E el \in BOOLEAN, tw \in 0..MaxView, th \in 0..MaxView :
          view = View(MaxView, MaxView, el, tw, th)
    /\ \E px \in 0..(MaxView - 1), py \in 0..(MaxView - 1) :
          ticks = <<TooltipTick(PointerAt(px, py))>>
    /\ rendered = TRUE

PlaceNext == RunTick

SpecTooltip == PlaceInit /\ [][PlaceNext]_vars

----------------------------------------------------------------------------
(* Chart reconciliation, from the revision that draws a sparkline per card: *)
(* fetchStatus, the search / statusFilter / categoryFilter watchers and     *)
(* updateSparklines. Entity records carry name, status and category here;   *)
(* their sample histories only feed the drawings and are left out.          *)

\* polls that can be outstanding at once (this revision has no fetching flag)
MaxPending == 2

Categories == {"core", "edge"}

SearchTexts == {"", "a"}
StatusFilters == {"All"} \cup Statuses
CategoryFilters == {"All"} \cup Categories

\* every duplicate-free array of entity records of this revision over Names
ChartSnapshots ==
    UNION {{[i \in DOMAIN ns |-> [name |-> ns[i], status |-> st[i], category |-> ct[i]]] :
               st \in [DOMAIN ns -> Statuses], ct \in [DOMAIN ns -> Categories]} :
           ns \in NameSeqs(Names, Cardinality(Names))}

\* String.prototype.toLowerCase on the names and search texts of the model
LowerCase(text) ==
    CASE text = "A" -> "a"
      [] text = "B" -> "b"
      [] OTHER -> text

\* String.prototype.includes for a needle of at most one character in a
\* text of one character
Includes(text, needle) == needle = "" \/ text = needle

\* the predicate of filteredApis
MatchesFilters(a, q, sf, cf) ==
    /\ Includes(LowerCase(a.name), LowerCase(q))
    /\ (sf = "All" \/ a.status = sf)
    /\ (cf = "All" \/ a.category = cf)

\* computed filteredApis
FilteredApis(list, q, sf, cf) ==
    SelectSeq(list, LAMBDA a : MatchesFilters(a, q, sf, cf))

\* new Set(this.filteredApis.map(a => a.name))
VisibleNames(list, q, sf, cf) ==
    {FilteredApis(list, q, sf, cf)[i].name : i \in DOMAIN FilteredApis(list, q, sf, cf)}

\* slug(name): lowercase, runs outside [a-z0-9_-] replaced by "-"
Slug(name) == LowerCase(name)

\* a lookup that finds a canvas for every card
SparkTargetAlways(attached, name) == TRUE

\* document.getElementById('spark-' + slug(name)) finds an element
SparkTarget(attached, name) == Slug(name) \in attached

\* a first step that destroys nothing
StaleHandlesNone(handles, visible) == {}

\* step 1: the handles whose card disappeared
StaleHandles(handles, visible) == handles \ visible

\* updateSparklines(): the names that own a handle afterwards
UpdateSparklines(handles, visible, attached) ==
    LET kept == handles \ StaleHandles(handles, visible)
        created == {n \in visible : SparkTarget(attached, n) /\ n \notin kept}
    IN  kept \cup created

\* mounted(): fetchStatus(); setInterval(this.fetchStatus, 5000)
SparkMounted ==
    /\ Quiescent
    /\ ~mountedDone
    /\ mountedDone' = TRUE
    /\ inFlight' = inFlight + 1
    /\ timers' = timers \cup {NewTimerId(timers)}
    /\ last' = "mounted"
    /\ UNCHANGED <<apis, fetched, orderMap, nextOrder, storage, isLoading, fetchError,
                   refreshInterval, fetchIntervalId>>
    /\ UNCHANGED restVars

\* the interval timer fires: fetchStatus() up to its await
SparkTimerFire ==
    /\ Quiescent
    /\ timers # {}
    /\ inFlight < MaxPending
    /\ inFlight' = inFlight + 1
    /\ last' = "timerFetch"
    /\ UNCHANGED <<mountedDone, apis, fetched, orderMap, nextOrder, storage, isLoading,
                   fetchError, refreshInterval, fetchIntervalId, timers>>
    /\ UNCHANGED restVars

\* a poll resolves: this.apis = data; this.$nextTick(() => this.updateSparklines())
SparkPollSuccess ==
    /\ Quiescent
    /\ inFlight > 0
    /\ inFlight' = inFlight - 1
    /\ \E data \in ChartSnapshots : apis' = data
    /\ ticks' = NextTick(ticks, SparkTick)
    /\ rendered' = FALSE
    /\ last' = "poll"
    /\ UNCHANGED <<mountedDone, fetched, orderMap, nextOrder, storage, isLoading, fetchError,
                   refreshInterval, fetchIntervalId, timers>>
    /\ UNCHANGED <<sliceVars, detailVars, chartVars>>

\* a poll rejects, or its payload is no array
SparkPollFailure ==
    /\ Quiescent
    /\ inFlight > 0
    /\ inFlight' = inFlight - 1
    /\ fetchError' = TRUE
    /\ last' = "pollFailed"
    /\ UNCHANGED <<mountedDone, apis, fetched, orderMap, nextOrder, storage, isLoading,
                   refreshInterval, fetchIntervalId, timers>>
    /\ UNCHANGED restVars

\* the user edits the search box; watch.search defers a reconciliation
SetSearch ==
    /\ Quiescent
    /\ \E q \in SearchTexts \ {search} : search' = q
    /\ ticks' = NextTick(ticks, SparkTick)
    /\ rendered' = FALSE
    /\ last' = "search"
    /\ UNCHANGED <<mountedDone, apis, fetched, orderMap, nextOrder, storage, isLoading,
                   fetchError, refreshInterval, fetchIntervalId, timers, inFlight>>
    /\ UNCHANGED <<statusFilter, categoryFilter, charts, canvases>>
    /\ UNCHANGED <<sliceVars, detailVars>>

\* the user picks a status; watch.statusFilter defers a reconciliation
SetStatusFilter ==
    /\ Quiescent
    /\ \E f \in StatusFilters \ {statusFilter} : statusFilter' = f
    /\ ticks' = NextTick(ticks, SparkTick)
    /\ rendered' = FALSE
    /\ last' = "statusFilter"
    /\ UNCHANGED <<mountedDone, apis, fetched, orderMap, nextOrder, storage, isLoading,
                   fetchError, refreshInterval, fetchIntervalId, timers, inFlight>>
    /\ UNCHANGED <<search, categoryFilter, charts, canvases>>
    /\ UNCHANGED <<sliceVars, detailVars>>

\* the user picks a category; watch.categoryFilter defers a reconciliation
SetCategoryFilter ==
    /\ Quiescent
    /\ \E f \in CategoryFilters \ {categoryFilter} : categoryFilter' = f
    /\ ticks' = NextTick(ticks, SparkTick)
    /\ rendered' = FALSE
    /\ last' = "categoryFilter"
    /\ UNCHANGED <<mountedDone, apis, fetched, orderMap, nextOrder, storage, isLoading,
                   fetchError, refreshInterval, fetchIntervalId, timers, inFlight>>
    /\ UNCHANGED <<search, statusFilter, charts, canvases>>
    /\ UNCHANGED <<sliceVars, detailVars>>

\* the rendering surface applies the pending mutations: it draws the cards
\* of the visible entities; the canvas of a card may not be attached yet
SparkFlush ==
    /\ ~rendered
    /\ rendered' = TRUE
    /\ canvases' \in SUBSET {Slug(n) : n \in VisibleNames(apis, search, statusFilter,
                                                         categoryFilter)}
    /\ last' = "flush"
    /\ UNCHANGED <<mountedDone, apis, fetched, orderMap, nextOrder, storage, isLoading,
                   fetchError, refreshInterval, fetchIntervalId, timers, inFlight>>
    /\ UNCHANGED <<search, statusFilter, categoryFilter, charts, ticks>>
    /\ UNCHANGED <<sliceVars, detailVars>>

\* the deferred callback runs: one reconciliation pass
SparkPass ==
    /\ rendered
    /\ ticks # <<>>
    /\ Head(ticks).kind = "sparklines"
    /\ charts' = UpdateSparklines(charts,
                     VisibleNames(apis, search, statusFilter, categoryFilter), canvases)
    /\ ticks' = Tail(ticks)
    /\ last' = "updateSparklines"
    /\ UNCHANGED <<mountedDone, apis, fetched, orderMap, nextOrder, storage, isLoading,
                   fetchError, refreshInterval, fetchIntervalId, timers, inFlight>>
    /\ UNCHANGED <<search, statusFilter, categoryFilter, canvases, rendered>>
    /\ UNCHANGED <<sliceVars, detailVars>>

ChartInit ==
    /\ SyncIdle
    /\ SliceIdle
    /\ DetailIdle
    /\ ChartIdle
    /\ apis = <<>>
    /\ fetched = <<>>
    /\ orderMap = EmptyMap
    /\ nextOrder = 0
    /\ storage = StoreVal("missing", <<>>, EmptyProps)
    /\ last = "created"

ChartNext ==
    \/ SparkMounted
    \/ SparkTimerFire
    \/ SparkPollSuccess
    \/ SparkPollFailure
    \/ SetSearch
    \/ SetStatusFilter
    \/ SetCategoryFilter
    \/ SparkFlush
    \/ SparkPass

SpecCharts == ChartInit /\ [][ChartNext]_vars

\* the host's guarantees for the deferred work: the surface applies pending
\* mutations and a deferred callback runs
LiveSpecCharts ==
    ChartInit /\ [][ChartNext]_vars /\ WF_vars(SparkFlush) /\ WF_vars(SparkPass)

----------------------------------------------------------------------------
(* Properties of the status synchronizer *)

FailLabels == {"failRequest", "failElement"}
SuccessLabels == {"success", "successUnsaved"}

\* C1: whatever the interleaving of timer firings, manual fetchStatus calls,
\* interval changes and request completions, at most one status request is
\* in flight.
C1_AtMostOneInFlight == inFlight <= 1

\* a manual fetchStatus call arrived while the request was in flight
C1_Witness == inFlight = 1 /\ last = "manualNoop"

\* C2: a completing fetch, failed or not, clears the fetching flag and runs
\* startPolling; with a positive interval and every request completing, an
\* idle synchronizer always starts another fetch, unless polling is paused
\* in between.
C2_SelfRescheduling ==
    /\ [][inFlight' < inFlight =>
             /\ ~isLoading'
             /\ IntervalPositive(refreshInterval') => fetchIntervalId' \in timers']_vars
    /\ (mountedDone /\ ~isLoading /\ IntervalPositive(refreshInterval))
          ~> (isLoading \/ ~IntervalPositive(refreshInterval))

\* a failed fetch has completed and the poll timer is armed again
C2_Witness == last \in FailLabels /\ ~isLoading /\ fetchIntervalId \in timers

\* C3: a failing fetch leaves the entity collection as it was when the
\* fetch started and sets the error flag; starting a fetch clears the flag.
C3_FailureKeepsData ==
    [][/\ (inFlight' < inFlight /\ last' \in FailLabels) => (apis' = apis /\ fetchError')
       /\ (isLoading /\ last' \notin SuccessLabels) => apis' = apis
       /\ (~isLoading /\ isLoading') => ~fetchError']_vars

\* a fetch failed half way through its payload while entities were displayed
C3_Witness == last = "failElement" /\ fetchError /\ apis # <<>>

\* C5: at most one poll timer is pending, it is the one fetchIntervalId
\* names, none is pending while the interval is not positive, and an idle
\* synchronizer with a positive interval has its timer armed.
C5_OneTimer ==
    /\ Cardinality(timers) <= 1
    /\ timers \subseteq {fetchIntervalId}
    /\ ~IntervalPositive(refreshInterval) => timers = {}
    /\ (mountedDone /\ ~isLoading /\ IntervalPositive(refreshInterval)) => timers # {}

\* a fetch started by hand while paused has completed, and no timer is armed
C5_Witness ==
    /\ refreshInterval = Millis(0)
    /\ last \in SuccessLabels
    /\ ~isLoading
    /\ timers = {}

----------------------------------------------------------------------------
(* Properties of the order registry *)

\* what loadSavedOrder restores from the current storage content
Persisted == LoadSavedOrder(storage, EmptyMap, 0).orderMap

\* the list holds the same entity records as the other, in some order
SameEntities(out, in) ==
    /\ Len(out) = Len(in)
    /\ \A i \in DOMAIN in : \E j \in DOMAIN out :
          out[j].name = in[i].name /\ out[j].status = in[i].status

\* every entity of the list carries the rank the map holds for its name
Stamped(list, om) ==
    \A i \in DOMAIN list : Has(om, list[i].name) /\ list[i].rank = Lookup(om, list[i].name)

\* C4: after a successful fetch the collection is the fetched snapshot with
\* every entity stamped with its rank, and when storage accepted the write
\* the persisted order map equals the one in memory.
C4_SuccessPersists ==
    (last = "success") =>
        /\ SameEntities(apis, fetched)
        /\ Stamped(apis, orderMap)
        /\ Persisted = orderMap

\* C6: a name that holds a rank keeps that rank in every later step, so the
\* map only grows, and every displayed entity carries the rank of its name.
C6_OrderStability ==
    [][/\ \A n \in DOMAIN orderMap.props :
             Has(orderMap', n) /\ Lookup(orderMap', n) = Lookup(orderMap, n)
       /\ Stamped(apis', orderMap')]_vars

\* entity A, ranked first, has left the snapshot while B keeps its later rank
C6_Witness ==
    /\ storage.kind = "object" /\ last \in SuccessLabels
    /\ Len(apis) = 1 /\ apis[1].name = "B" /\ apis[1].rank = Num(1)
    /\ Has(orderMap, "A") /\ Lookup(orderMap, "A") = Num(0)
    /\ ~Has(orderMap, "Z")

\* C7: a name that enters the map after startup gets a numeric rank
\* strictly greater than every rank the map held, restored ones included.
C7_NewEntityAppend ==
    [][mountedDone =>
          \A n \in (DOMAIN orderMap'.props) \ (DOMAIN orderMap.props) :
             /\ Lookup(orderMap', n).num
             /\ \A v \in ValuesOf(orderMap) : v.num => Lookup(orderMap', n).n > v.n]_vars

\* the persisted value is a JSON object whose values are all ranks
WellFormedOrder(st) ==
    st.kind = "object" /\ \A n \in DOMAIN st.props : st.props[n].num /\ st.props[n].n >= 0

\* C9: when the persisted value is missing, unparseable or no object of
\* names and ranks, loadSavedOrder leaves an empty map and counter 0.
C9_MalformedFallsBack ==
    (last = "mounted" /\ ~WellFormedOrder(storage)) =>
        (ValuesOf(orderMap) = {} /\ nextOrder = 0)

\* the ranks of the list that are numbers never decrease along it
Ascending(list) ==
    \A i, j \in DOMAIN list :
        (i < j /\ list[i].rank.num /\ list[j].rank.num) => list[i].rank.n <= list[j].rank.n

\* C8: ensureStableOrder returns the entities it was given, each stamped
\* with the rank the map holds for its name, in ascending order of rank
\* whatever the order of the input.
C8_SortedPermutation ==
    (last = "ensure") =>
        /\ SameEntities(apis, fetched)
        /\ Stamped(apis, orderMap)
        /\ Ascending(apis)

----------------------------------------------------------------------------
(* Properties of the history window extractor *)

\* C10: the window holds at most 20 samples for "24h", 40 for "7d" and 60
\* for "30d" or an unknown range; it is the tail of the history, and the
\* whole history when that is shorter.
C10_WindowBound ==
    (last = "slice" /\ sliceApi.present /\ sliceApi.history.isArray) =>
        LET hist == sliceApi.history.items
            out == sliceOut.values
            cap == IF timeRange = "24h" THEN 20 ELSE IF timeRange = "7d" THEN 40 ELSE 60
        IN  /\ Len(out) <= cap
            /\ Len(out) = IF Len(hist) < cap THEN Len(hist) ELSE cap
            /\ \A i \in DOMAIN out : out[i] = hist[Len(hist) - Len(out) + i]

\* a history longer than the 7d window was cut to its last 40 samples
C10_Witness ==
    /\ last = "slice" /\ timeRange = "7d" /\ sliceApi.present
    /\ sliceApi.history.isArray /\ Len(sliceApi.history.items) > 40
    /\ Len(sliceOut.values) = 40
    /\ sliceOut.values[1] = Len(sliceApi.history.items) - 39

\* C11: for every entity and time range the four sequences returned by
\* historySlice have the same length and their i-th elements belong to the
\* same sample of the entity, also when a source array is absent or short
\* (it then counts as empty and no error is raised).
C11_AlignedSlices ==
    (last = "slice") =>
        /\ Len(sliceOut.labels) = Len(sliceOut.values)
        /\ Len(sliceOut.ok) = Len(sliceOut.values)
        /\ Len(sliceOut.status) = Len(sliceOut.values)
        /\ \A i \in DOMAIN sliceOut.values :
              /\ sliceOut.labels[i] = sliceOut.values[i]
              /\ sliceOut.ok[i] = sliceOut.values[i]
              /\ sliceOut.status[i] = sliceOut.values[i]

----------------------------------------------------------------------------
(* Properties of the chart reconciliation *)

\* the visible entity set V a pass reconciles against
Visible == VisibleNames(apis, search, statusFilter, categoryFilter)

\* the visible entities whose render target is attached
Attached == {n \in Visible : Slug(n) \in canvases}

\* C12 as stated: after a reconciliation pass against the visible entity
\* set V the keys of the chart handle set are exactly V, whatever the handle
\* set and V were before.
C12_HandlesEqualVisible == (last = "updateSparklines") => charts = Visible

\* C12: after a reconciliation pass against V every key of the chart handle
\* set is in V and every visible entity whose render target is attached has
\* a handle; the keys are exactly V when every target is attached.
C12_HandlesReconciled ==
    (last = "updateSparklines") =>
        /\ charts \subseteq Visible
        /\ Attached \subseteq charts
        /\ (Attached = Visible) => charts = Visible

\* B is fetched but filtered out by the search text, and A alone owns a handle
C12_Witness ==
    /\ last = "updateSparklines" /\ search = "a" /\ Len(apis) = 2
    /\ Visible = {"A"} /\ charts = {"A"}

\* C17: a pass leaves a visible entity whose render target is not attached
\* as it was, with or without handle, and gives every visible entity whose
\* target is attached a handle; so the skipped entity gets its handle in a
\* later pass that finds the target.
C17_SkipAndRetry ==
    [][(last' = "updateSparklines") =>
          \A n \in Visible :
             IF n \in Attached
             THEN n \in charts'
             ELSE (n \in charts') = (n \in charts)]_vars

\* the pass skipped A, whose canvas is missing, and B has its handle
C17_Witness ==
    /\ last = "updateSparklines"
    /\ Visible = {"A", "B"}
    /\ "A" \notin Attached /\ "A" \notin charts
    /\ "B" \in charts

\* the steps that change the visible set: a poll result or a filter change
MutationLabels == {"poll", "search", "statusFilter", "categoryFilter"}

\* C20: a successful poll or a change of the search, status or category
\* filter defers exactly one reconciliation pass and runs none itself; the
\* pass runs once the surface has applied the mutation, and it does run.
C20_DeferredPass ==
    /\ [][(last' \in MutationLabels) =>
             (ticks' = <<SparkTick>> /\ ~rendered' /\ charts' = charts)]_vars
    /\ [][(last' = "updateSparklines") =>
             (rendered /\ ticks = <<SparkTick>> /\ ticks' = <<>>)]_vars
    /\ (ticks # <<>>) ~> (last = "updateSparklines" /\ ticks = <<>>)

\* the pass deferred by a change of the status filter has run
C20_Witness ==
    /\ last = "updateSparklines" /\ statusFilter = "Offline"
    /\ ticks = <<>> /\ rendered /\ charts # {}

----------------------------------------------------------------------------
(* Properties of the tooltip geometry *)

\* C13: for a pointer inside the window and a tooltip no larger than the
\* window, the placement keeps the tooltip inside the window:
\* 0 <= x, x + width <= innerWidth, 0 <= y, y + height <= innerHeight.
C13_Containment ==
    [][(/\ last' = "placeTooltip" /\ view.tooltipEl
        /\ view.offsetWidth <= view.innerWidth
        /\ view.offsetHeight <= view.innerHeight) =>
          /\ 0 <= tooltip'.x
          /\ tooltip'.x + view.offsetWidth <= view.innerWidth
          /\ 0 <= tooltip'.y
          /\ tooltip'.y + view.offsetHeight <= view.innerHeight]_vars

\* C14: x is pointerX + 16 unless pointerX + 16 + width exceeds the window
\* width, and then pointerX - width - 16; y likewise with the heights; each
\* axis is decided from its own coordinate and sizes only.
C14_PlacementRule ==
    [][(last' = "placeTooltip" /\ view.tooltipEl /\ ticks # <<>>) =>
          /\ tooltip'.x =
                IF Head(ticks).evt.clientX + 16 + view.offsetWidth > view.innerWidth
                THEN Head(ticks).evt.clientX - view.offsetWidth - 16
                ELSE Head(ticks).evt.clientX + 16
          /\ tooltip'.y =
                IF Head(ticks).evt.clientY + 16 + view.offsetHeight > view.innerHeight
                THEN Head(ticks).evt.clientY - view.offsetHeight - 16
                ELSE Head(ticks).evt.clientY + 16]_vars

\* a 2 by 2 tooltip for a pointer at the left edge, one pixel above the
\* bottom of an 18 pixel window: placed to the right and flipped upwards
C14_Witness ==
    /\ last = "placeTooltip" /\ view.tooltipEl
    /\ view.offsetWidth = 2 /\ view.offsetHeight = 2
    /\ tooltip.x = 16 /\ tooltip.y = -1

----------------------------------------------------------------------------
(* Properties of the detail view and the tooltip state *)

CloseLabels == {"closeModal", "escape"}

\* C15: closing the detail view, by its control or by Escape, destroys the
\* detail chart and hides the tooltip in that step, and in no reachable
\* state does a detail chart handle exist while the view is closed.
C15_ClosedHasNoChart ==
    /\ [](~showModal => ~detailChart)
    /\ [][(last' \in CloseLabels) =>
             (~showModal' /\ ~detailChart' /\ ~tooltip'.show)]_vars

\* Escape closed a view whose canvas is still in the document and whose
\* tooltip had been placed
C15_Witness ==
    /\ last = "escape" /\ ~showModal /\ ~detailChart
    /\ detailCanvas /\ ~tooltip.show /\ tooltip.x # 0

\* C16 as stated: a fetchStatus call while a fetch is in flight issues no
\* request and leaves the collection, the error flag, the fetching flag and
\* the pending poll timer as they were.
C16_NoopWhileFetching ==
    [][(isLoading /\ last' \in {"timerNoop", "manualNoop"}) =>
          /\ inFlight' = inFlight
          /\ apis' = apis
          /\ fetchError' = fetchError
          /\ isLoading' = isLoading
          /\ timers' = timers]_vars

\* C18: showTooltip shows the tooltip with its point; moveTooltip changes
\* nothing but the position, and nothing at all while the tooltip is hidden;
\* hideTooltip and closeModal hide it and clear the point; a hidden tooltip
\* never carries a point.
C18_TooltipMachine ==
    /\ [](~tooltip.show => tooltip.point = NoPoint)
    /\ [][(last' = "showTooltip") =>
             (tooltip'.show /\ tooltip'.point \in Points)]_vars
    /\ [][(last' = "moveTooltip") =>
             /\ tooltip'.show = tooltip.show
             /\ tooltip'.point = tooltip.point
             /\ (~tooltip.show) => (tooltip' = tooltip)]_vars
    /\ [][(last' \in CloseLabels \cup {"hideTooltip"}) =>
             (~tooltip'.show /\ tooltip'.point = NoPoint)]_vars

\* the pointer moved to the far corner over the second bar and the shown
\* tooltip was flipped
C18_Witness ==
    /\ last = "moveTooltip" /\ tooltip.show /\ tooltip.point = "bar2"
    /\ tooltip.x < 0

\* the entity records of the collection
Members == {apis[i] : i \in DOMAIN apis}

\* C19 as stated: after a successful fetch that completes while the detail
\* view is open, the bound record is a member of the current collection.
C19_BoundIsMember ==
    (last \in SuccessLabels /\ showModal) => selectedApi \in Members

\* C19: a successful fetch that completes while the detail view is open
\* binds the view to the first fetched record with the selected name when
\* there is one and leaves the bound record alone otherwise, and it defers
\* a re-render of the detail chart.
C19_ReboundByName ==
    [][(last' \in SuccessLabels /\ showModal) =>
          /\ selectedApi' =
                IF \E i \in DOMAIN apis' : apis'[i].name = selectedApi.name
                THEN apis'[FindByName(apis', selectedApi.name)]
                ELSE selectedApi
          /\ ticks' # <<>> /\ Head(ticks') = FetchTick]_vars

\* the open view of A was rebound to the record that reports A offline
C19_Witness ==
    /\ last \in SuccessLabels /\ showModal
    /\ selectedApi.name = "A" /\ selectedApi.status = "Offline"
    /\ selectedApi \in Members
    /\ ticks = <<FetchTick, RenderTick>>

----------------------------------------------------------------------------
(* Properties of the registry and the scheduler across the whole run *)

\* C21: in every reachable state two distinct names of the order map hold
\* different ranks, and nextOrder is strictly greater than every rank in
\* the map, after loadSavedOrder at startup and any ensureStableOrder calls.
C21_InjectiveOrder ==
    /\ \A n1, n2 \in DOMAIN orderMap.props :
          (n1 # n2) => (orderMap.props[n1] # orderMap.props[n2])
    /\ \A v \in ValuesOf(orderMap) : v.num => nextOrder > v.n

\* C22: while a status request is in flight no poll timer is pending, from
\* mounted() onward and across refresh-interval changes made during a fetch.
C22_NoTimerWhileFetching == (inFlight > 0) => (timers = {})

====
